---- MODULE Spec2Model ----
(***************************************************************************)
(* Two-layer neural-network bandit agents of ensemble_nn/agent_nn.py:      *)
(* TwoLayerNNEpsilonGreedy, TwoLayerNNEpsilonGreedyAnnealing,              *)
(* TwoLayerNNDropout and TwoLayerNNEnsembleSampling.                       *)
(*                                                                         *)
(* Floating-point numbers are modelled as exact rationals <<n, d>> in      *)
(* lowest terms with d > 0.  numpy arrays are sequences; numpy index i is  *)
(* sequence position i + 1.  Draws from numpy.random are inputs chosen     *)
(* from finite sets.                                                       *)
(***************************************************************************)
EXTENDS Integers, Sequences, FiniteSets, TLC

(***************************************************************************)
(* Rational arithmetic (Python float operators + - * / < >=).              *)
(***************************************************************************)
Abs(x) == IF x < 0 THEN -x ELSE x

RECURSIVE GCD(_, _)
GCD(a, b) == IF b = 0 THEN a ELSE GCD(b, a % b)

Rat(n, d) ==
    LET s == IF d < 0 THEN -1 ELSE 1
        g == GCD(Abs(n), Abs(d))
    IN  <<(s * n) \div g, (s * d) \div g>>

R(n) == <<n, 1>>
Zero == R(0)
One == R(1)
Two == R(2)

\* Sums and comparisons go through the least common denominator and
\* products cancel crosswise first, which keeps the intermediate integers
\* small.
RAdd(x, y) ==
    LET g == GCD(x[2], y[2])
    IN  Rat(x[1] * (y[2] \div g) + y[1] * (x[2] \div g), (x[2] \div g) * y[2])
RNeg(x) == <<-x[1], x[2]>>
RSub(x, y) == RAdd(x, RNeg(y))
RMul(x, y) ==
    LET g1 == GCD(Abs(x[1]), y[2])
        g2 == GCD(Abs(y[1]), x[2])
    IN  <<(x[1] \div g1) * (y[1] \div g2), (x[2] \div g2) * (y[2] \div g1)>>
\* Python float division: a zero divisor raises ZeroDivisionError, which the
\* callers test for with IsZero before dividing.
RDiv(x, y) == RMul(x, Rat(y[2], y[1]))
IsZero(x) == x[1] = 0
RLt(x, y) ==
    LET g == GCD(x[2], y[2])
    IN  x[1] * (y[2] \div g) < y[1] * (x[2] \div g)
RLe(x, y) == ~RLt(y, x)
RGe(x, y) == RLe(y, x)
RAbs(x) == <<Abs(x[1]), x[2]>>
RMax(x, y) == IF RLt(x, y) THEN y ELSE x

RECURSIVE RPow(_, _)
RPow(x, k) == IF k = 0 THEN One ELSE RMul(x, RPow(x, k - 1))

(***************************************************************************)
(* Array helpers.  Tab builds a sequence eagerly, entry by entry.          *)
(***************************************************************************)
Tab(n, F(_)) == [i \in 1..n |-> F(i)] \o <<>>

RECURSIVE SeqSum(_)
SeqSum(s) == IF s = <<>> THEN Zero ELSE RAdd(Head(s), SeqSum(Tail(s)))

SumTo(n, F(_)) == SeqSum(Tab(n, F))

Dot(x, w) == SumTo(Len(x), LAMBDA k: RMul(x[k], w[k]))

\* numpy converts a boolean array to 0/1 when it enters arithmetic.
Bool(b) == IF b THEN One ELSE Zero

\* arr[i] and arr[i] = v for a numpy index i (0-based).
At(arr, i) == arr[i + 1]
Put(arr, i, v) == [arr EXCEPT ![i + 1] = v]

\* numpy.argmax: the first index holding the maximum.
ArgMax(v) ==
    CHOOSE i \in 0..(Len(v) - 1) :
        /\ \A k \in 0..(Len(v) - 1) : RLe(At(v, k), At(v, i))
        /\ \A k \in 0..(i - 1) : RLt(At(v, k), At(v, i))

\* math.sqrt on the rationals that are squares of rationals.
ISqrt(n) == CHOOSE r \in 0..n : r * r = n
RSqrt(x) == <<ISqrt(x[1]), ISqrt(x[2])>>

\* np.zeros(n) and np.zeros((n, m)).
Zeros(n) == Tab(n, LAMBDA i: Zero)
Zeros2(n, m) == Tab(n, LAMBDA i: Zeros(m))

(***************************************************************************)
(* TwoLayerNNEpsilonGreedy: forward and backward pass.                     *)
(***************************************************************************)
EG_model_forward(s, input_actions) ==
    LET B == Len(input_actions)
        H == Len(s.W2)
        affine_out == Tab(B, LAMBDA b: Tab(H, LAMBDA j:
                          Dot(input_actions[b], s.W1[j])))
        relu_out == Tab(B, LAMBDA b: Tab(H, LAMBDA j:
                        RMax(RMul(s.leaky_coeff, affine_out[b][j]),
                             affine_out[b][j])))
        out == Tab(B, LAMBDA b: Dot(relu_out[b], s.W2))
    IN  [out |-> out,
         cache |-> [input_actions |-> input_actions,
                    affine_out |-> affine_out,
                    relu_out |-> relu_out]]

\* (affine_out >= 0) + leaky_coeff * (affine_out < 0), one entry.
ReluMask(leaky_coeff, a) ==
    RAdd(Bool(RGe(a, Zero)), RMul(leaky_coeff, Bool(RLt(a, Zero))))

\* dout = -(2 / noise_var) * (y - out)
Dout(noise_var, out, y) ==
    Tab(Len(out), LAMBDA b:
        RMul(RNeg(RDiv(Two, noise_var)), RSub(y[b], out[b])))

EG_model_backward(s, out, cache, y) ==
    LET B == Len(out)
        H == Len(s.W2)
        D == Len(s.W1[1])
        dout == Dout(s.noise_var, out, y)
        dW2 == Tab(H, LAMBDA j: SumTo(B, LAMBDA b:
                   RMul(dout[b], cache.relu_out[b][j])))
        drelu_out == Tab(B, LAMBDA b: Tab(H, LAMBDA j:
                         RMul(dout[b], s.W2[j])))
        daffine_out == Tab(B, LAMBDA b: Tab(H, LAMBDA j:
                           RMul(ReluMask(s.leaky_coeff, cache.affine_out[b][j]),
                                drelu_out[b][j])))
        dW1 == Tab(H, LAMBDA j: Tab(D, LAMBDA k: SumTo(B, LAMBDA b:
                   RMul(daffine_out[b][j], cache.input_actions[b][k]))))
    IN  [dW1 |-> dW1, dW2 |-> dW2]

(***************************************************************************)
(* TwoLayerNNDropout: forward and backward pass.  rand is the array        *)
(* rd.rand(shape of relu_out) drawn by the forward pass.                   *)
(***************************************************************************)
Dropout_model_forward(s, input_actions, rand) ==
    LET B == Len(input_actions)
        H == Len(s.W2)
        affine_out == Tab(B, LAMBDA b: Tab(H, LAMBDA j:
                          Dot(input_actions[b], s.W1[j])))
        relu_out == Tab(B, LAMBDA b: Tab(H, LAMBDA j:
                        RMax(RMul(s.leaky_coeff, affine_out[b][j]),
                             affine_out[b][j])))
        dropout_mask == Tab(B, LAMBDA b: Tab(H, LAMBDA j:
                            RLt(s.p, rand[b][j])))
        dropout_out == Tab(B, LAMBDA b: Tab(H, LAMBDA j:
                           RMul(relu_out[b][j], Bool(dropout_mask[b][j]))))
        out == Tab(B, LAMBDA b: Dot(dropout_out[b], s.W2))
    IN  [out |-> out,
         cache |-> [input_actions |-> input_actions,
                    affine_out |-> affine_out,
                    relu_out |-> relu_out,
                    dropout_mask |-> dropout_mask,
                    dropout_out |-> dropout_out]]

Dropout_model_backward(s, out, cache, y) ==
    LET B == Len(out)
        H == Len(s.W2)
        D == Len(s.W1[1])
        dout == Dout(s.noise_var, out, y)
        dW2 == Tab(H, LAMBDA j: SumTo(B, LAMBDA b:
                   RMul(dout[b], cache.relu_out[b][j])))
        ddropout_out == Tab(B, LAMBDA b: Tab(H, LAMBDA j:
                            RMul(dout[b], s.W2[j])))
        drelu_out == Tab(B, LAMBDA b: Tab(H, LAMBDA j:
                         RMul(ddropout_out[b][j], Bool(cache.dropout_mask[b][j]))))
        daffine_out == Tab(B, LAMBDA b: Tab(H, LAMBDA j:
                           RMul(ReluMask(s.leaky_coeff, cache.affine_out[b][j]),
                                drelu_out[b][j])))
        dW1 == Tab(H, LAMBDA j: Tab(D, LAMBDA k: SumTo(B, LAMBDA b:
                   RMul(daffine_out[b][j], cache.input_actions[b][k]))))
    IN  [dW1 |-> dW1, dW2 |-> dW2]

\* Method resolution: TwoLayerNNDropout overrides _model_forward and
\* _model_backward; TwoLayerNNEpsilonGreedyAnnealing inherits both.
ModelForward(s, input_actions, rand) ==
    IF s.cls = "Dropout" THEN Dropout_model_forward(s, input_actions, rand)
    ELSE EG_model_forward(s, input_actions)

ModelBackward(s, out, cache, y) ==
    IF s.cls = "Dropout" THEN Dropout_model_backward(s, out, cache, y)
    ELSE EG_model_backward(s, out, cache, y)

(***************************************************************************)
(* Draws from numpy.random.                                                *)
(***************************************************************************)
\* rd.randint(n): an integer of 0 .. n-1.
RandInt(n) == 0..(n - 1)

\* Seeded fault: the batch indices are drawn from 0 .. n, one past the end.
RandIntSize_inclusive(n, k) == [1..k -> 0..n]

\* rd.randint(n, size=k): k such integers.
RandIntSize(n, k) == [1..k -> RandInt(n)]

(***************************************************************************)
(* TwoLayerNNEpsilonGreedy._update_model and update_observation, inherited *)
(* by the annealing and the dropout agent.  draws[i] holds what iteration  *)
(* i of the loop draws: batch_ind, and rand for the dropout forward pass.  *)
(***************************************************************************)
\* Seeded fault: the regularization term enters with the opposite sign.
RegCoef_negated(prior_var, t) == RNeg(RDiv(Two, RMul(prior_var, R(t + 1))))

\* 2 / (prior_var * (t + 1))
RegCoef(prior_var, t) == RDiv(Two, RMul(prior_var, R(t + 1)))

\* The first half of an iteration of the loop of _update_model: the batch,
\* the forward pass on it and the backward pass.
EG_batch_gradient(s, draw) ==
    LET batch_ind == draw.batch_ind
        action_batch == Tab(s.batch_size, LAMBDA b: At(s.action_hist, batch_ind[b]))
        reward_batch == Tab(s.batch_size, LAMBDA b: At(s.reward_hist, batch_ind[b]))
        fwd == ModelForward(s, action_batch, draw.rand)
        bwd == ModelBackward(s, fwd.out, fwd.cache, reward_batch)
    IN  [action_batch |-> action_batch, reward_batch |-> reward_batch,
         out |-> fwd.out, cache |-> fwd.cache, dW1 |-> bwd.dW1, dW2 |-> bwd.dW2]

\* self.W1 -= self.lr * dW1; self.W2 -= self.lr * dW2
EG_step_weights(s, dW1, dW2) ==
    LET H == Len(s.W2)
        D == Len(s.W1[1])
    IN  [s EXCEPT
           !.W1 = Tab(H, LAMBDA j: Tab(D, LAMBDA k:
                      RSub(s.W1[j][k], RMul(s.lr, dW1[j][k])))),
           !.W2 = Tab(H, LAMBDA j: RSub(s.W2[j], RMul(s.lr, dW2[j])))]

\* One iteration of the loop of _update_model.
EG_gradient_step(s, t, draw) ==
    LET H == Len(s.W2)
        D == Len(s.W1[1])
        g == EG_batch_gradient(s, draw)
        reg == RegCoef(s.prior_var, t)
        dW1 == Tab(H, LAMBDA j: Tab(D, LAMBDA k:
                   RAdd(RDiv(g.dW1[j][k], R(s.batch_size)),
                        RMul(reg, s.W1[j][k]))))
        dW2 == Tab(H, LAMBDA j:
                   RAdd(RDiv(g.dW2[j], R(s.batch_size)),
                        RMul(reg, s.W2[j])))
    IN  EG_step_weights(s, dW1, dW2)

\* for i in range(self.num_gradient_steps), from iteration i (1-based) on.
RECURSIVE EG_update_model_from(_, _, _, _)
EG_update_model_from(s, t, draws, i) ==
    IF i > s.num_gradient_steps THEN s
    ELSE EG_update_model_from(EG_gradient_step(s, t, draws[i]), t, draws, i + 1)

EG_update_model(s, t, draws) == EG_update_model_from(s, t, draws, 1)

\* self.action_hist[t] = self.actions[action]; self.reward_hist[t] = reward
EG_record(s, t, action, reward) ==
    [s EXCEPT !.action_hist = Put(s.action_hist, t, At(s.actions, action)),
              !.reward_hist = Put(s.reward_hist, t, reward)]

\* self.lr *= self.lr_decay
DecayLr(s) == [s EXCEPT !.lr = RMul(s.lr, s.lr_decay)]

\* Seeded fault: the learning rate is decayed before the gradient steps run.
EG_update_observation_decay_first(s, observation, action, reward, draws) ==
    LET t == observation
    IN  EG_update_model(DecayLr(EG_record(s, t, action, reward)), t, draws)

EG_update_observation(s, observation, action, reward, draws) ==
    LET t == observation
    IN  DecayLr(EG_update_model(EG_record(s, t, action, reward), t, draws))

(***************************************************************************)
(* pick_action of the three single-model agents.  The result is           *)
(* Return(action index), or Raise(name of the exception).                  *)
(***************************************************************************)
Return(v) == [returns |-> v]
Raise(e) == [raises |-> e]
Returned(r) == "returns" \in DOMAIN r
Raised(r) == "raises" \in DOMAIN r

\* Seeded fault: the comparison admits equality.
EG_explores_inclusive(s, u) == RLe(u, s.epsilon_param)

\* Whether pick_action takes the random branch: u < self.epsilon_param.
EG_explores(s, u) == RLt(u, s.epsilon_param)

\* randint is <<rd.randint(self.num_actions)>> where the random branch draws
\* it, and <<>> where the call does not reach that line.
EG_pick_action(s, observation, u, randint) ==
    IF EG_explores(s, u) THEN Return(randint[1])
    ELSE Return(ArgMax(EG_model_forward(s, s.actions).out))

\* epsilon = self.epsilon_param / (self.epsilon_param + t); the time step is
\* a Python int and epsilon_param a Python float, so a zero divisor raises.
Anneal_raises(s, observation) == IsZero(RAdd(s.epsilon_param, R(observation)))

\* Seeded fault: the time step is counted from 1.
Anneal_epsilon_from_one(s, observation) ==
    RDiv(s.epsilon_param, RAdd(s.epsilon_param, R(observation + 1)))

Anneal_epsilon(s, observation) ==
    RDiv(s.epsilon_param, RAdd(s.epsilon_param, R(observation)))

Anneal_explores(s, observation, u) == RLt(u, Anneal_epsilon(s, observation))

Anneal_pick_action(s, observation, u, randint) ==
    IF Anneal_raises(s, observation) THEN Raise("ZeroDivisionError")
    ELSE IF Anneal_explores(s, observation, u) THEN Return(randint[1])
    ELSE Return(ArgMax(EG_model_forward(s, s.actions).out))

Dropout_pick_action(s, observation, rand) ==
    Return(ArgMax(Dropout_model_forward(s, s.actions, rand).out))

(***************************************************************************)
(* TwoLayerNNEnsembleSampling.  Members are numbered 0 .. M-1.             *)
(***************************************************************************)
Ens_model_forward(s, m, input_actions) ==
    LET B == Len(input_actions)
        W1m == At(s.W1, m)
        W2m == At(s.W2, m)
        H == Len(W2m)
        affine_out == Tab(B, LAMBDA b: Tab(H, LAMBDA j:
                          Dot(input_actions[b], W1m[j])))
        relu_out == Tab(B, LAMBDA b: Tab(H, LAMBDA j:
                        RMax(RMul(s.leaky_coeff, affine_out[b][j]),
                             affine_out[b][j])))
        out == Tab(B, LAMBDA b: Dot(relu_out[b], W2m))
    IN  [out |-> out,
         cache |-> [input_actions |-> input_actions,
                    affine_out |-> affine_out,
                    relu_out |-> relu_out]]

Ens_model_backward(s, m, out, cache, y) ==
    LET B == Len(out)
        W2m == At(s.W2, m)
        H == Len(W2m)
        D == Len(At(s.W1, m)[1])
        dout == Dout(s.noise_var, out, y)
        dW2 == Tab(H, LAMBDA j: SumTo(B, LAMBDA b:
                   RMul(dout[b], cache.relu_out[b][j])))
        drelu_out == Tab(B, LAMBDA b: Tab(H, LAMBDA j:
                         RMul(dout[b], W2m[j])))
        daffine_out == Tab(B, LAMBDA b: Tab(H, LAMBDA j:
                           RMul(ReluMask(s.leaky_coeff, cache.affine_out[b][j]),
                                drelu_out[b][j])))
        dW1 == Tab(H, LAMBDA j: Tab(D, LAMBDA k: SumTo(B, LAMBDA b:
                   RMul(daffine_out[b][j], cache.input_actions[b][k]))))
    IN  [dW1 |-> dW1, dW2 |-> dW2]

\* The first half of an iteration of the loop of _update_model(m, t): the
\* batch, the forward pass on it and the backward pass.
Ens_batch_gradient(s, m, draw) ==
    LET batch_ind == draw.batch_ind
        action_batch == Tab(s.batch_size, LAMBDA b: At(s.action_hist, batch_ind[b]))
        reward_batch == Tab(s.batch_size, LAMBDA b:
                            At(At(s.model_reward_hist, m), batch_ind[b]))
        fwd == Ens_model_forward(s, m, action_batch)
        bwd == Ens_model_backward(s, m, fwd.out, fwd.cache, reward_batch)
    IN  [action_batch |-> action_batch, reward_batch |-> reward_batch,
         out |-> fwd.out, cache |-> fwd.cache, dW1 |-> bwd.dW1, dW2 |-> bwd.dW2]

\* Seeded fault: W1 and W2 are the prior arrays themselves, not copies of
\* them, so the in-place step moves the priors too.
Ens_step_weights_aliased(s, m, dW1, dW2) ==
    LET W1m == At(s.W1, m)
        W2m == At(s.W2, m)
        H == Len(W2m)
        D == Len(W1m[1])
        W1new == Put(s.W1, m, Tab(H, LAMBDA j: Tab(D, LAMBDA k:
                     RSub(W1m[j][k], RMul(s.lr, dW1[j][k])))))
        W2new == Put(s.W2, m, Tab(H, LAMBDA j:
                     RSub(W2m[j], RMul(s.lr, dW2[j]))))
    IN  [s EXCEPT !.W1 = W1new, !.W2 = W2new,
                  !.W1_model_prior = W1new, !.W2_model_prior = W2new]

\* self.W1[m] -= self.lr * dW1; self.W2[m] -= self.lr * dW2
Ens_step_weights(s, m, dW1, dW2) ==
    LET W1m == At(s.W1, m)
        W2m == At(s.W2, m)
        H == Len(W2m)
        D == Len(W1m[1])
    IN  [s EXCEPT
           !.W1 = Put(s.W1, m, Tab(H, LAMBDA j: Tab(D, LAMBDA k:
                      RSub(W1m[j][k], RMul(s.lr, dW1[j][k]))))),
           !.W2 = Put(s.W2, m, Tab(H, LAMBDA j:
                      RSub(W2m[j], RMul(s.lr, dW2[j]))))]

\* One iteration of the loop of _update_model(m, t).
Ens_gradient_step(s, m, t, draw) ==
    LET W1m == At(s.W1, m)
        W2m == At(s.W2, m)
        H == Len(W2m)
        D == Len(W1m[1])
        g == Ens_batch_gradient(s, m, draw)
        reg == RegCoef(s.prior_var, t)
        dW1 == Tab(H, LAMBDA j: Tab(D, LAMBDA k:
                   RAdd(RDiv(g.dW1[j][k], R(s.batch_size)),
                        RMul(reg, RSub(W1m[j][k], At(s.W1_model_prior, m)[j][k])))))
        dW2 == Tab(H, LAMBDA j:
                   RAdd(RDiv(g.dW2[j], R(s.batch_size)),
                        RMul(reg, RSub(W2m[j], At(s.W2_model_prior, m)[j]))))
    IN  Ens_step_weights(s, m, dW1, dW2)

RECURSIVE Ens_update_model_from(_, _, _, _, _)
Ens_update_model_from(s, m, t, draws, i) ==
    IF i > s.num_gradient_steps THEN s
    ELSE Ens_update_model_from(Ens_gradient_step(s, m, t, draws[i]),
                               m, t, draws, i + 1)

Ens_update_model(s, m, t, draws) == Ens_update_model_from(s, m, t, draws, 1)

\* Seeded fault: the perturbed reward is written into every member's history.
Ens_member_update_shared(s, m, t, reward, draws) ==
    LET m_noise == RMul(RSqrt(s.noise_var), At(draws, m).randn)
        s1 == [s EXCEPT !.model_reward_hist =
                  Tab(s.M, LAMBDA k:
                      Put(s.model_reward_hist[k], t, RAdd(reward, m_noise)))]
    IN  Ens_update_model(s1, m, t, At(draws, m).steps)

\* The body of the loop over the members in update_observation.  draws[m+1]
\* holds member m's draws: randn, and one batch_ind per gradient step.
Ens_member_update(s, m, t, reward, draws) ==
    LET m_noise == RMul(RSqrt(s.noise_var), At(draws, m).randn)
        s1 == [s EXCEPT !.model_reward_hist =
                  Put(s.model_reward_hist, m,
                      Put(At(s.model_reward_hist, m), t, RAdd(reward, m_noise)))]
    IN  Ens_update_model(s1, m, t, At(draws, m).steps)

\* The loop over the members, run in the given order.
RECURSIVE Ens_update_members(_, _, _, _, _)
Ens_update_members(s, order, t, reward, draws) ==
    IF order = <<>> THEN s
    ELSE Ens_update_members(Ens_member_update(s, Head(order), t, reward, draws),
                            Tail(order), t, reward, draws)

\* range(self.M)
Range(n) == Tab(n, LAMBDA i: i - 1)

\* self.action_hist[t] = self.actions[action]
Ens_record(s, t, action) ==
    [s EXCEPT !.action_hist = Put(s.action_hist, t, At(s.actions, action))]

Ens_update_observation(s, observation, action, reward, draws) ==
    LET t == observation
        s1 == Ens_record(s, t, action)
    IN  DecayLr(Ens_update_members(s1, Range(s1.M), t, reward, draws))

Ens_pick_action(s, observation, m) ==
    Return(ArgMax(Ens_model_forward(s, m, s.actions).out))

\* Seeded fault: pick_action decays the learning rate.
Ens_pick_action_self_decays(s, observation) == DecayLr(s)

\* The fields of self after pick_action returns: no pick_action assigns a
\* field, and _model_forward returns its cache instead of storing it.
EG_pick_action_self(s, observation) == s
Anneal_pick_action_self(s, observation) == s
Dropout_pick_action_self(s, observation) == s
Ens_pick_action_self(s, observation) == s

(***************************************************************************)
(* Constructors.  a holds the arguments, randn1 and randn2 the two         *)
(* rd.randn arrays drawn for the weights.                                  *)
(***************************************************************************)
\* np.copy: a new array holding the same values.
Copy(x) == x

EG_init(cls, a, randn1, randn2) ==
    [cls |-> cls,
     W1 |-> Tab(a.hidden_dim, LAMBDA j: Tab(a.input_dim, LAMBDA k:
                RMul(Rat(1, 100), randn1[j][k]))),
     W2 |-> Tab(a.hidden_dim, LAMBDA j: RMul(Rat(1, 100), randn2[j])),
     actions |-> a.actions,
     num_actions |-> Len(a.actions),
     T |-> a.time_horizon,
     prior_var |-> a.prior_var,
     noise_var |-> a.noise_var,
     epsilon_param |-> a.epsilon_param,
     lr |-> a.learning_rate,
     num_gradient_steps |-> a.num_gradient_steps,
     batch_size |-> a.batch_size,
     lr_decay |-> a.lr_decay,
     leaky_coeff |-> a.leaky_coeff,
     action_hist |-> Zeros2(a.time_horizon, a.input_dim),
     reward_hist |-> Zeros(a.time_horizon)]

Dropout_init(a, randn1, randn2) ==
    [cls |-> "Dropout",
     W1 |-> Tab(a.hidden_dim, LAMBDA j: Tab(a.input_dim, LAMBDA k:
                RMul(Rat(1, 100), randn1[j][k]))),
     W2 |-> Tab(a.hidden_dim, LAMBDA j: RMul(Rat(1, 100), randn2[j])),
     actions |-> a.actions,
     num_actions |-> Len(a.actions),
     T |-> a.time_horizon,
     prior_var |-> a.prior_var,
     noise_var |-> a.noise_var,
     p |-> a.drop_prob,
     lr |-> a.learning_rate,
     num_gradient_steps |-> a.num_gradient_steps,
     batch_size |-> a.batch_size,
     lr_decay |-> a.lr_decay,
     leaky_coeff |-> a.leaky_coeff,
     action_hist |-> Zeros2(a.time_horizon, a.input_dim),
     reward_hist |-> Zeros(a.time_horizon)]

\* randn1 is the M x hidden_dim x input_dim array, randn2 the M x hidden_dim one.
Ens_init(a, randn1, randn2) ==
    LET W1_model_prior ==
            Tab(a.num_models, LAMBDA m: Tab(a.hidden_dim, LAMBDA j:
                Tab(a.input_dim, LAMBDA k:
                    RMul(RSqrt(a.prior_var), randn1[m][j][k]))))
        W2_model_prior ==
            Tab(a.num_models, LAMBDA m: Tab(a.hidden_dim, LAMBDA j:
                RMul(RSqrt(a.prior_var), randn2[m][j])))
    IN  [cls |-> "Ensemble",
         M |-> a.num_models,
         W1_model_prior |-> W1_model_prior,
         W2_model_prior |-> W2_model_prior,
         W1 |-> Copy(W1_model_prior),
         W2 |-> Copy(W2_model_prior),
         actions |-> a.actions,
         num_actions |-> Len(a.actions),
         T |-> a.time_horizon,
         prior_var |-> a.prior_var,
         noise_var |-> a.noise_var,
         lr |-> a.learning_rate,
         num_gradient_steps |-> a.num_gradient_steps,
         batch_size |-> a.batch_size,
         lr_decay |-> a.lr_decay,
         leaky_coeff |-> a.leaky_coeff,
         action_hist |-> Zeros2(a.time_horizon, a.input_dim),
         model_reward_hist |-> Zeros2(a.num_models, a.time_horizon)]

(***************************************************************************)
(* The experiment: the arguments the agents are constructed with and the   *)
(* values the random draws and the environment's rewards range over.       *)
(***************************************************************************)
\* The arithmetic is exact and the integers it runs on are 32 bits wide,
\* while a gradient step about triples the length of the weights' numerators
\* and denominators.  The driver runs a time step only while the lengths
\* that update_observation can reach from the weights as they are, 3 to the
\* power num_gradient_steps times their length in bits, are at most MaxBits.
MaxBits == 17

\* time_horizon: the driver runs the time steps 0 .. TimeHorizon-1.
TimeHorizon == 2

\* How many draws of the initial weights are explored.
NumInits == 2

\* The action set the environment supplies: one feature vector per action.
Actions == << <<R(1), R(-1)>>, <<R(0), R(0)>> >>

\* The reward the environment returns for an action.
Reward(action) == IF action = 0 THEN R(1) ELSE R(0)

\* rd.rand() in pick_action, and the entries of rd.rand(shape) in the dropout
\* forward pass.
URand == {Rat(0, 1), Rat(1, 4), Rat(1, 2)}
URandMask == {Rat(1, 4), Rat(3, 4)}

\* rd.randn() in update_observation of the ensemble.
RandnNoise == {R(-1), R(1)}

\* rd.randn arrays for the initial weights, one pair per draw number.
RandnEntry(seed, j, k) == ((seed + j + 2 * k) % 3) - 1

InitRandn1(seed, hidden_dim, input_dim) ==
    Tab(hidden_dim, LAMBDA j: Tab(input_dim, LAMBDA k:
        R(100 * RandnEntry(seed, j, k))))

InitRandn2(seed, hidden_dim) ==
    Tab(hidden_dim, LAMBDA j: R(100 * RandnEntry(seed, j, 0)))

EnsRandn1(seed, num_models, hidden_dim, input_dim) ==
    Tab(num_models, LAMBDA m: Tab(hidden_dim, LAMBDA j: Tab(input_dim, LAMBDA k:
        R(RandnEntry(seed + m, j, k)))))

EnsRandn2(seed, num_models, hidden_dim) ==
    Tab(num_models, LAMBDA m: Tab(hidden_dim, LAMBDA j:
        R(RandnEntry(seed + m, j, 0))))

CommonArgs ==
    [input_dim: {Len(Actions[1])}, hidden_dim: {2}, actions: {Actions},
     time_horizon: {TimeHorizon}, noise_var: {R(4)}, lr_decay: {Rat(1, 2)},
     leaky_coeff: {Rat(1, 2)}]

\* learning_rate below prior_var, and above it.
StepArgs ==
    {[learning_rate |-> Rat(1, 4), prior_var |-> R(1)],
     [learning_rate |-> Rat(1, 2), prior_var |-> Rat(1, 4)]}

\* Adds the fields more to each record of A.
With(A, more) == {a @@ m : a \in A, m \in more}

EGArgs ==
    With(With(CommonArgs, StepArgs),
         [epsilon_param: {R(0), Rat(1, 2), R(1)}, num_gradient_steps: {1},
          batch_size: {1, 2}]
         \cup [epsilon_param: {R(0), R(1)}, num_gradient_steps: {2},
               batch_size: {1}])

DropoutArgs ==
    With(With(CommonArgs, StepArgs), [drop_prob: {Rat(1, 2)},
                      num_gradient_steps: {1}, batch_size: {1}])

\* The ensemble agent is run for two time steps.
EnsArgs ==
    With(With([input_dim: {Len(Actions[1])}, hidden_dim: {2}, actions: {Actions},
               time_horizon: {2}, noise_var: {R(4)}, lr_decay: {Rat(1, 2)},
               leaky_coeff: {Rat(1, 2)}], StepArgs),
         [num_models: {2}, num_gradient_steps: {1}, batch_size: {1}])
    \cup With([input_dim: {Len(Actions[1])}, hidden_dim: {2}, actions: {Actions},
               time_horizon: {2}, noise_var: {R(4)}, lr_decay: {Rat(1, 2)},
               leaky_coeff: {Rat(1, 2)}, learning_rate: {Rat(1, 4)},
               prior_var: {R(1)}],
              [num_models: {2}, num_gradient_steps: {2}, batch_size: {1}])

(***************************************************************************)
(* State.                                                                  *)
(*   agent    the agent object: a record of its fields                     *)
(*   born     the agent as its constructor left it                         *)
(*   now      the driver's time step                                       *)
(*   phase    what the driver does next: "pick", "update", or "raised"     *)
(*            once an exception escaped                                    *)
(*   ret      what the last pick_action returned or raised                 *)
(*   trace    the last call: its name, arguments and draws, and the agent  *)
(*            as it was when the call began                                *)
(*   written  the time steps whose history entries a call has assigned     *)
(***************************************************************************)
\* ret when no pick_action is pending.
NoCall == [none |-> TRUE]

VARIABLES agent, born, now, phase, ret, trace, written

vars == <<agent, born, now, phase, ret, trace, written>>

Init ==
    /\ \E seed \in 1..NumInits :
         \/ \E cls \in {"EpsilonGreedy", "Annealing"}, a \in EGArgs :
              agent = EG_init(cls, a, InitRandn1(seed, a.hidden_dim, a.input_dim),
                              InitRandn2(seed, a.hidden_dim))
         \/ \E a \in DropoutArgs :
              agent = Dropout_init(a, InitRandn1(seed, a.hidden_dim, a.input_dim),
                                   InitRandn2(seed, a.hidden_dim))
         \/ \E a \in EnsArgs :
              agent = Ens_init(a, EnsRandn1(seed, a.num_models, a.hidden_dim, a.input_dim),
                               EnsRandn2(seed, a.num_models, a.hidden_dim))
    /\ born = agent
    /\ now = 0
    /\ phase = "pick"
    /\ ret = NoCall
    /\ trace = [op |-> "__init__"]
    /\ written = {}

\* The weights of the agent's networks, as a set of numbers.
Weights(s) ==
    IF s.cls = "Ensemble"
    THEN UNION {{s.W1[m][j][k] : j \in 1..Len(s.W1[m]), k \in 1..Len(s.W1[m][1])}
                \cup {s.W2[m][j] : j \in 1..Len(s.W2[m])} : m \in 1..s.M}
    ELSE {s.W1[j][k] : j \in 1..Len(s.W1), k \in 1..Len(s.W1[1])}
         \cup {s.W2[j] : j \in 1..Len(s.W2)}

\* The length of a natural number in bits.
RECURSIVE Bits(_)
Bits(n) == IF n = 0 THEN 0 ELSE 1 + Bits(n \div 2)

RECURSIVE Pow3(_)
Pow3(k) == IF k = 0 THEN 1 ELSE 3 * Pow3(k - 1)

Fits(s) ==
    \A w \in Weights(s) :
        /\ Pow3(s.num_gradient_steps) * Bits(Abs(w[1])) <= MaxBits
        /\ Pow3(s.num_gradient_steps) * Bits(w[2]) <= MaxBits

\* Whether the driver runs time step t.
Runs(s, t) == t < s.T /\ Fits(s)

\* The driver goes on to update_observation, unless pick_action raised.
AfterPick(r) == IF Returned(r) THEN "update" ELSE "raised"

PickEpsilonGreedy ==
    /\ phase = "pick" /\ Runs(agent, now) /\ agent.cls = "EpsilonGreedy"
    /\ \E u \in URand :
         \E randint \in (IF EG_explores(agent, u)
                         THEN {<<r>> : r \in RandInt(agent.num_actions)}
                         ELSE {<<>>}) :
           /\ ret' = EG_pick_action(agent, now, u, randint)
           /\ trace' = [op |-> "pick_action", t |-> now, pre |-> agent,
                        u |-> u, randint |-> randint]
    /\ agent' = EG_pick_action_self(agent, now)
    /\ phase' = AfterPick(ret')
    /\ UNCHANGED <<born, now, written>>

PickAnnealing ==
    /\ phase = "pick" /\ Runs(agent, now) /\ agent.cls = "Annealing"
    /\ \E u \in URand :
         \E randint \in (IF ~Anneal_raises(agent, now) /\ Anneal_explores(agent, now, u)
                         THEN {<<r>> : r \in RandInt(agent.num_actions)}
                         ELSE {<<>>}) :
           /\ ret' = Anneal_pick_action(agent, now, u, randint)
           /\ trace' = [op |-> "pick_action", t |-> now, pre |-> agent,
                        u |-> u, randint |-> randint]
    /\ agent' = Anneal_pick_action_self(agent, now)
    /\ phase' = AfterPick(ret')
    /\ UNCHANGED <<born, now, written>>

PickDropout ==
    /\ phase = "pick" /\ Runs(agent, now) /\ agent.cls = "Dropout"
    /\ \E rand \in [1..agent.num_actions -> [1..Len(agent.W2) -> URandMask]] :
           /\ ret' = Dropout_pick_action(agent, now, rand)
           /\ trace' = [op |-> "pick_action", t |-> now, pre |-> agent]
    /\ agent' = Dropout_pick_action_self(agent, now)
    /\ phase' = AfterPick(ret')
    /\ UNCHANGED <<born, now, written>>

PickEnsemble ==
    /\ phase = "pick" /\ Runs(agent, now) /\ agent.cls = "Ensemble"
    /\ \E m \in RandInt(agent.M) :
           /\ ret' = Ens_pick_action(agent, now, m)
           /\ trace' = [op |-> "pick_action", t |-> now, pre |-> agent, m |-> m]
    /\ agent' = Ens_pick_action_self(agent, now)
    /\ phase' = AfterPick(ret')
    /\ UNCHANGED <<born, now, written>>

\* What one iteration of _update_model draws.
StepDraws(s, t) ==
    [batch_ind : RandIntSize(t + 1, s.batch_size),
     rand : IF s.cls = "Dropout"
            THEN [1..s.batch_size -> [1..Len(s.W2) -> URandMask]]
            ELSE {<<>>}]

\* update_observation of the three single-model agents; the driver passes
\* the action pick_action returned and the environment's reward for it.
UpdateSingle ==
    /\ phase = "update" /\ agent.cls # "Ensemble"
    /\ LET reward == Reward(ret.returns) IN
         \E draws \in [1..agent.num_gradient_steps -> StepDraws(agent, now)] :
           /\ agent' = EG_update_observation(agent, now, ret.returns, reward, draws)
           /\ trace' = [op |-> "update_observation", t |-> now, action |-> ret.returns,
                        reward |-> reward, pre |-> agent, draws |-> draws]
    /\ written' = written \cup {now}
    /\ now' = now + 1
    /\ phase' = "pick"
    /\ ret' = NoCall
    /\ UNCHANGED born

UpdateEnsemble ==
    /\ phase = "update" /\ agent.cls = "Ensemble"
    /\ LET reward == Reward(ret.returns) IN
         \E draws \in [1..agent.M ->
                         [randn : RandnNoise,
                          steps : [1..agent.num_gradient_steps ->
                                     StepDraws(agent, now)]]] :
           /\ agent' = Ens_update_observation(agent, now, ret.returns, reward, draws)
           /\ trace' = [op |-> "update_observation", t |-> now, action |-> ret.returns,
                        reward |-> reward, pre |-> agent, draws |-> draws]
    /\ written' = written \cup {now}
    /\ now' = now + 1
    /\ phase' = "pick"
    /\ ret' = NoCall
    /\ UNCHANGED born

Next ==
    \/ PickEpsilonGreedy
    \/ PickAnnealing
    \/ PickDropout
    \/ PickEnsemble
    \/ UpdateSingle
    \/ UpdateEnsemble

Spec == Init /\ [][Next]_vars

(***************************************************************************)
(* Properties.  They are stated on the last call, which trace describes:   *)
(* its arguments, its draws and the agent as the call found it.            *)
(***************************************************************************)
IsPick == trace.op = "pick_action"
IsUpdate == trace.op = "update_observation"
IsEnsemble == agent.cls = "Ensemble"

\* The agent as iteration i of the traced call's loop finds it (i = 1 is the
\* first iteration; i = num_gradient_steps + 1 is the agent the loop leaves).
EG_before_step(tr, i) ==
    LET s1 == EG_record(tr.pre, tr.t, tr.action, tr.reward)
        cut == EG_update_model([s1 EXCEPT !.num_gradient_steps = i - 1],
                               tr.t, tr.draws)
    IN  [cut EXCEPT !.num_gradient_steps = s1.num_gradient_steps]

\* The same for iteration i of member m's loop, the members 0 .. m-1 done.
Ens_before_step(tr, m, i) ==
    LET s1 == Ens_record(tr.pre, tr.t, tr.action)
        s2 == Ens_update_members(s1, SubSeq(Range(s1.M), 1, m),
                                 tr.t, tr.reward, tr.draws)
        cut == Ens_member_update([s2 EXCEPT !.num_gradient_steps = i - 1],
                                 m, tr.t, tr.reward, tr.draws)
    IN  [cut EXCEPT !.num_gradient_steps = s1.num_gradient_steps]

\* Every index the traced update_observation drew into a minibatch.
BatchIndices(tr) ==
    IF tr.pre.cls = "Ensemble"
    THEN {tr.draws[m].steps[i].batch_ind[b] :
            m \in 1..tr.pre.M, i \in 1..tr.pre.num_gradient_steps,
            b \in 1..tr.pre.batch_size}
    ELSE {tr.draws[i].batch_ind[b] :
            i \in 1..tr.pre.num_gradient_steps, b \in 1..tr.pre.batch_size}

\* C1: every index that update_observation(t, ...) draws into a minibatch
\* lies in 0 .. t, and its history entries have been written by an
\* update_observation call (the one for step t included, which writes before
\* it samples).
C1_BatchWithinHistory ==
    IsUpdate => \A ind \in BatchIndices(trace) :
                    ind \in 0..trace.t /\ ind \in written

\* An update at step 1 whose batches hold both index 0 and index 1.
C1_Witness ==
    IsUpdate /\ trace.t = 1 /\ BatchIndices(trace) = {0, 1}

\* What the agent has learned: the fields C2 lists.
Learned(s) ==
    [W1 |-> s.W1, W2 |-> s.W2, lr |-> s.lr, action_hist |-> s.action_hist,
     rewards |-> IF s.cls = "Ensemble" THEN s.model_reward_hist
                 ELSE s.reward_hist,
     priors |-> IF s.cls = "Ensemble"
                THEN <<s.W1_model_prior, s.W2_model_prior>> ELSE <<>>]

\* C2: pick_action, of each of the four agents, leaves W1, W2, the ensemble
\* priors, action_hist, the reward histories and the learning rate as the
\* call found them.
C2_PickActionMutatesNothing ==
    IsPick => Learned(agent) = Learned(trace.pre)

\* A pick_action of the ensemble agent whose weights an update has moved.
C2_Witness ==
    /\ IsPick /\ IsEnsemble /\ trace.t = 1
    /\ agent.W1 # born.W1 /\ agent.lr # born.lr

\* C3: pick_action completes and returns an index of the action set, at
\* every step and for every epsilon_param >= 0.  (Refuted: the annealing
\* agent with epsilon_param = 0.0 divides by zero at step 0.)
C3_PickActionReturnsIndex ==
    IsPick => Returned(ret) /\ ret.returns \in 0..(agent.num_actions - 1)

\* C4: after k calls of update_observation the learning rate is
\* learning_rate * lr_decay^k, whatever num_gradient_steps and M are; and in
\* a call every gradient step, of every member, reads the learning rate the
\* call found, the agent the call leaves being the one those steps produce
\* with the rate decayed once.
C4_LrDecayedOncePerCall ==
    /\ agent.lr = RMul(born.lr, RPow(born.lr_decay, now))
    /\ IsUpdate =>
         LET G == trace.pre.num_gradient_steps IN
         IF IsEnsemble
         THEN /\ \A m \in 0..(trace.pre.M - 1), i \in 1..G :
                    Ens_before_step(trace, m, i).lr = trace.pre.lr
              /\ agent = DecayLr(Ens_before_step(trace, trace.pre.M - 1, G + 1))
         ELSE /\ \A i \in 1..G : EG_before_step(trace, i).lr = trace.pre.lr
              /\ agent = DecayLr(EG_before_step(trace, G + 1))

\* The second update of an agent that runs two gradient steps per call.
C4_Witness ==
    /\ IsUpdate /\ now = 2 /\ agent.num_gradient_steps = 2
    /\ agent.W1 # trace.pre.W1 /\ agent.lr # trace.pre.lr

\* C5: the ensemble's W1_model_prior and W2_model_prior hold their
\* construction-time values after any calls, and the constructor leaves
\* W1[m] = W1_model_prior[m] and W2[m] = W2_model_prior[m] for every m.
C5_PriorSnapshotImmutable ==
    IsEnsemble =>
        /\ agent.W1_model_prior = born.W1_model_prior
        /\ agent.W2_model_prior = born.W2_model_prior
        /\ \A m \in 0..(born.M - 1) :
               /\ At(born.W1, m) = At(born.W1_model_prior, m)
               /\ At(born.W2, m) = At(born.W2_model_prior, m)

\* An ensemble every member of which has been trained away from its prior.
C5_Witness ==
    /\ IsEnsemble /\ now = 2
    /\ \A m \in 0..(agent.M - 1) :
           /\ At(agent.W1, m) # At(agent.W1_model_prior, m)
           /\ At(agent.W2, m) # At(agent.W2_model_prior, m)

\* The orders in which the M members can be processed.
Orders(M) ==
    {o \in [1..M -> 0..(M - 1)] : \A a, b \in 1..M : o[a] = o[b] => a = b}

\* What belongs to member m alone.
Member(s, m) ==
    [W1 |-> At(s.W1, m), W2 |-> At(s.W2, m),
     prior |-> <<At(s.W1_model_prior, m), At(s.W2_model_prior, m)>>,
     reward_hist |-> At(s.model_reward_hist, m)]

\* The agent with everything that belongs to the members other than m
\* overwritten by zeros.
Scrubbed(s, m) ==
    LET H == Len(s.W2[1])
        D == Len(s.W1[1][1])
    IN  [s EXCEPT
           !.W1 = Tab(s.M, LAMBDA k: IF k = m + 1 THEN s.W1[k] ELSE Zeros2(H, D)),
           !.W2 = Tab(s.M, LAMBDA k: IF k = m + 1 THEN s.W2[k] ELSE Zeros(H)),
           !.W1_model_prior = Tab(s.M, LAMBDA k:
               IF k = m + 1 THEN s.W1_model_prior[k] ELSE Zeros2(H, D)),
           !.W2_model_prior = Tab(s.M, LAMBDA k:
               IF k = m + 1 THEN s.W2_model_prior[k] ELSE Zeros(H)),
           !.model_reward_hist = Tab(s.M, LAMBDA k:
               IF k = m + 1 THEN s.model_reward_hist[k] ELSE Zeros(s.T))]

\* C6: in update_observation of the ensemble the update of member m writes
\* only W1[m], W2[m] and model_reward_hist[m][t], and reads nothing that
\* belongs to another member; so, the draws of each member fixed, every
\* order of processing the members leaves the same agent.
C6_MemberUpdatesIndependent ==
    IsUpdate /\ IsEnsemble =>
        LET t == trace.t
            s1 == Ens_record(trace.pre, t, trace.action)
        IN  /\ \A order \in Orders(s1.M) :
                   agent = DecayLr(Ens_update_members(s1, order, t, trace.reward,
                                                      trace.draws))
            /\ \A m \in 0..(s1.M - 1) :
                   LET s2 == Ens_member_update(s1, m, t, trace.reward, trace.draws)
                       alone == Ens_member_update(Scrubbed(s1, m), m, t,
                                                  trace.reward, trace.draws)
                   IN  /\ \A k \in 0..(s1.M - 1) \ {m} :
                              Member(s2, k) = Member(s1, k)
                       /\ Member(s2, m).prior = Member(s1, m).prior
                       /\ \A i \in 0..(s1.T - 1) \ {t} :
                              At(Member(s2, m).reward_hist, i)
                                  = At(Member(s1, m).reward_hist, i)
                       /\ s2.action_hist = s1.action_hist
                       /\ s2.lr = s1.lr
                       /\ Member(alone, m) = Member(s2, m)

\* An update at step 1 that gave the two members different draws and moved
\* the weights of both.
C6_Witness ==
    /\ IsUpdate /\ IsEnsemble /\ trace.t = 1
    /\ trace.draws[1] # trace.draws[2]
    /\ \A m \in 0..(agent.M - 1) : At(agent.W1, m) # At(trace.pre.W1, m)

\* C7: TwoLayerNNEpsilonGreedy.pick_action with epsilon_param = 0.0 returns
\* the arg-max of the forward pass over the action set whatever u is; with
\* epsilon_param = 1.0 it takes the random branch whatever u is and returns
\* the index rd.randint drew, an index of the action set.
C7_EpsilonSemantics ==
    IsPick /\ trace.pre.cls = "EpsilonGreedy" =>
        /\ trace.pre.epsilon_param = Zero =>
               ret = Return(ArgMax(EG_model_forward(trace.pre,
                                                    trace.pre.actions).out))
        /\ trace.pre.epsilon_param = One =>
               /\ trace.randint # <<>>
               /\ ret = Return(trace.randint[1])
               /\ ret.returns \in 0..(trace.pre.num_actions - 1)

\* With epsilon_param = 1.0, after an update, pick_action returns an index
\* that is not the arg-max.
C7_Witness ==
    /\ IsPick /\ trace.pre.cls = "EpsilonGreedy" /\ trace.t = 1
    /\ trace.pre.epsilon_param = One
    /\ ret # Return(ArgMax(EG_model_forward(trace.pre, trace.pre.actions).out))

\* C8: the annealing agent takes the random branch at step t exactly when
\* u < epsilon_param / (epsilon_param + t), that is when
\* u * (epsilon_param + t) < epsilon_param, where the quotient is defined;
\* epsilon_param itself keeps its construction-time value; and for
\* epsilon_param > 0 the quotient decreases strictly over t = 0 .. T-1.
C8_AnnealingSchedule ==
    agent.cls = "Annealing" =>
        /\ IsPick /\ Returned(ret) =>
               LET eps == trace.pre.epsilon_param
                   explored == trace.randint # <<>>
               IN  /\ explored <=>
                          RLt(RMul(trace.u, RAdd(eps, R(trace.t))), eps)
                   /\ explored => ret = Return(trace.randint[1])
                   /\ ~explored =>
                          ret = Return(ArgMax(EG_model_forward(
                                    trace.pre, trace.pre.actions).out))
        /\ agent.epsilon_param = born.epsilon_param
        /\ DOMAIN agent = DOMAIN born
        /\ RLt(Zero, agent.epsilon_param) =>
               \A t1, t2 \in 0..(agent.T - 1) :
                   t1 < t2 => RLt(Anneal_epsilon(agent, t2),
                                  Anneal_epsilon(agent, t1))

\* At step 1 with epsilon_param = 1/2 the draw u = 1/2, below epsilon_param
\* but not below 1/3, does not take the random branch.
C8_Witness ==
    /\ IsPick /\ agent.cls = "Annealing" /\ trace.t = 1
    /\ agent.epsilon_param = Rat(1, 2) /\ trace.u = Rat(1, 2)
    /\ trace.randint = <<>>

\* Whether a batch gradient has no non-zero entry.
IsZeroGradient(g) ==
    /\ \A j \in 1..Len(g.dW1), k \in 1..Len(g.dW1[1]) : IsZero(g.dW1[j][k])
    /\ \A j \in 1..Len(g.dW2) : IsZero(g.dW2[j])

\* Whether the data contributed nothing to any gradient step of the traced
\* call (of member m's loop, for the ensemble).
EG_no_data_influence(tr) ==
    \A i \in 1..tr.pre.num_gradient_steps :
        IsZeroGradient(EG_batch_gradient(EG_before_step(tr, i), tr.draws[i]))

Ens_no_data_influence(tr, m) ==
    \A i \in 1..tr.pre.num_gradient_steps :
        IsZeroGradient(Ens_batch_gradient(Ens_before_step(tr, m, i), m,
                                          At(tr.draws, m).steps[i]))

\* |new - prior| <= |old - prior|
NoFarther(new, old, prior) ==
    RLe(RAbs(RSub(new, prior)), RAbs(RSub(old, prior)))

\* Whether no weight of s is farther from its prior than it was in old; the
\* prior of the single-model agents is zero.
EG_pulled(s, old) ==
    /\ \A j \in 1..Len(s.W1), k \in 1..Len(s.W1[1]) :
           NoFarther(s.W1[j][k], old.W1[j][k], Zero)
    /\ \A j \in 1..Len(s.W2) : NoFarther(s.W2[j], old.W2[j], Zero)

Ens_pulled(s, old, m) ==
    /\ \A j \in 1..Len(At(s.W1, m)), k \in 1..Len(At(s.W1, m)[1]) :
           NoFarther(At(s.W1, m)[j][k], At(old.W1, m)[j][k],
                     At(old.W1_model_prior, m)[j][k])
    /\ \A j \in 1..Len(At(s.W2, m)) :
           NoFarther(At(s.W2, m)[j], At(old.W2, m)[j],
                     At(old.W2_model_prior, m)[j])

\* Whether the traced call pulled the weights it trained without data
\* influence towards their priors.
PulledTowardsPrior(tr, s) ==
    IF tr.pre.cls = "Ensemble"
    THEN \A m \in 0..(tr.pre.M - 1) :
             Ens_no_data_influence(tr, m) => Ens_pulled(s, tr.pre, m)
    ELSE EG_no_data_influence(tr) => EG_pulled(s, tr.pre)

\* C9 as stated: with no data influence, update_observation leaves no
\* weight farther from its prior than it was, for every learning_rate,
\* prior_var and t.  (Refuted: learning_rate = 1/2 with prior_var = 1/4 at
\* t = 0 multiplies the distance by 3.)
C9_PullForEveryStepSize ==
    IsUpdate => PulledTowardsPrior(trace, agent)

\* C9, amended: with no data influence, update_observation leaves no weight
\* farther from its prior than it was, provided the learning rate the call
\* runs with is at most prior_var * (t + 1).
C9_PullForSmallSteps ==
    IsUpdate /\ RLe(trace.pre.lr, RMul(trace.pre.prior_var, R(trace.t + 1)))
        => PulledTowardsPrior(trace, agent)

\* An update of a single-model agent whose batch rewards equal the
\* predictions, with a small learning rate, that moved a weight.
C9_Witness ==
    /\ IsUpdate /\ ~IsEnsemble
    /\ RLe(trace.pre.lr, RMul(trace.pre.prior_var, R(trace.t + 1)))
    /\ \A i \in 1..trace.pre.num_gradient_steps :
           LET g == EG_batch_gradient(EG_before_step(trace, i), trace.draws[i])
           IN  g.out = g.reward_batch
    /\ agent.W2 # trace.pre.W2

\* sum((y - out)^2) / noise_var, out the output of the forward pass on batch
\* g with the weights W1 and W2 and the dropout draws rand.
Loss(s, W1, W2, g, rand) ==
    LET out == ModelForward([s EXCEPT !.W1 = W1, !.W2 = W2],
                            g.action_batch, rand).out
    IN  RDiv(SumTo(Len(out), LAMBDA b:
                 RMul(RSub(g.reward_batch[b], out[b]),
                      RSub(g.reward_batch[b], out[b]))),
             s.noise_var)

\* The central difference of the loss in W2[j] with step 1.  The loss is a
\* quadratic in W2[j], of which a central difference is the derivative.
LossSlopeW2(s, g, rand, j) ==
    LET up == [s.W2 EXCEPT ![j] = RAdd(s.W2[j], One)]
        down == [s.W2 EXCEPT ![j] = RSub(s.W2[j], One)]
    IN  RDiv(RSub(Loss(s, s.W1, up, g, rand), Loss(s, s.W1, down, g, rand)), Two)

\* The rows b of the batch whose hidden unit j depends on W1[j][k].
Touching(g, k) == {b \in 1..Len(g.action_batch) : ~IsZero(g.action_batch[b][k])}

\* Whether the loss is differentiable in W1[j][k]: no row that depends on
\* it sits at the kink of the leaky ReLU.
SmoothInW1(g, j, k) ==
    \A b \in Touching(g, k) : ~IsZero(g.cache.affine_out[b][j])

\* A step that keeps every row on its side of the kink: half the least
\* |affine_out[b][j]| / |input[b][k]|, or 1 when no row depends on W1[j][k].
KinkFreeStep(g, j, k) ==
    LET room == {RDiv(RAbs(g.cache.affine_out[b][j]),
                      RMul(Two, RAbs(g.action_batch[b][k]))) : b \in Touching(g, k)}
    IN  IF room = {} THEN One
        ELSE CHOOSE h \in room : \A h2 \in room : RLe(h, h2)

\* The central difference of the loss in W1[j][k] with a kink-free step.
\* Between the kinks the loss is a quadratic in W1[j][k].
LossSlopeW1(s, g, rand, j, k) ==
    LET h == KinkFreeStep(g, j, k)
        up == [s.W1 EXCEPT ![j][k] = RAdd(s.W1[j][k], h)]
        down == [s.W1 EXCEPT ![j][k] = RSub(s.W1[j][k], h)]
    IN  RDiv(RSub(Loss(s, up, s.W2, g, rand), Loss(s, down, s.W2, g, rand)),
             RMul(Two, h))

\* Whether the backward pass of the first gradient step of the traced call
\* returned the gradient of the loss.
GradientIsExact(tr) ==
    LET s == EG_before_step(tr, 1)
        rand == tr.draws[1].rand
        g == EG_batch_gradient(s, tr.draws[1])
    IN  /\ \A j \in 1..Len(s.W2) : g.dW2[j] = LossSlopeW2(s, g, rand, j)
        /\ \A j \in 1..Len(s.W1), k \in 1..Len(s.W1[1]) :
               SmoothInW1(g, j, k) => g.dW1[j][k] = LossSlopeW1(s, g, rand, j, k)

\* C10: the dW1 and dW2 that _model_backward returns are the gradient of
\* sum((y - out)^2) / noise_var of the output of the matching
\* _model_forward, for the plain forward pass and for the dropout forward
\* pass with its mask held fixed.  (Refuted: the dropout dW2 is computed
\* from relu_out, the hidden activations before the mask.)
C10_BackwardIsGradient ==
    IsUpdate /\ ~IsEnsemble => GradientIsExact(trace)

\* The part of C10 that concerns the plain forward pass.
C10_PlainBackwardIsGradient ==
    IsUpdate /\ agent.cls \in {"EpsilonGreedy", "Annealing"}
        => GradientIsExact(trace)


====
